---- MODULE Spec2Model ----
(***************************************************************************)
(* Model of the pretok pre-tokenizer (src/src/lib.rs).                     *)
(*                                                                         *)
(* A Pretokenizer holds a cursor `pos` into an input string and a line     *)
(* counter `line`.  Every call of next() runs a state-machine loop over    *)
(* the code points after `pos`.  The model takes one step per loop         *)
(* iteration: one action for the end-of-input block (lib.rs 223-244) and   *)
(* one action per arm of `match state` (lib.rs 249-409).                   *)
(*                                                                         *)
(* The input is a sequence of code points.  A cursor is the number of code *)
(* points before it; byte_pos converts a cursor to a byte offset, the code *)
(* point "U" standing for a two-byte code point such as U+00E9.            *)
(***************************************************************************)
EXTENDS Integers, Sequences, FiniteSets, TLC

\* ------------------------------------------------------------------------
\* Bounds
\* ------------------------------------------------------------------------
\* Longest input, in code points.
MaxLen == 5
\* Longest input of the specification with fairness, in code points.
MaxLiveLen == 4
\* Longest input given to two scanners at once, in code points.
MaxPairLen == 4
\* Longest text after the block comment that opens an input of the
\* specification of inputs behind a comment, in code points.
MaxTailLen == 5
\* Longest input of the specification that restarts a fresh scanner on a
\* suffix, in code points.
MaxRestartLen == 4

\* ------------------------------------------------------------------------
\* Code points
\* ------------------------------------------------------------------------
NL == "\n"
SP == " "
TAB == "\t"
SLASH == "/"
STAR == "*"
QUOTE == "\""
BSLASH == "\\"
\* an ordinary one-byte code point
LETTER == "a"
\* an ordinary two-byte code point
WIDE == "U"

Alphabet == {NL, SP, TAB, SLASH, STAR, QUOTE, BSLASH, LETTER, WIDE}

\* Number of bytes of the UTF-8 encoding of code point c.
len_utf8(c) == IF c = WIDE THEN 2 ELSE 1

\* All inputs of at most n code points.
AllInputs(n) == UNION {[1..k -> Alphabet] : k \in 0..n}

\* ------------------------------------------------------------------------
\* State
\* ------------------------------------------------------------------------
VARIABLES
    input,   \* the &str given to Pretokenizer::new
    pos,     \* Pretokenizer.pos, as a count of code points
    line,    \* Pretokenizer.line
    pc,      \* "idle": no call running; "loop": inside the loop of next()
    state,   \* local `state` of next()
    curs,    \* local `curs` of next()
    ret,     \* what the last finished call returned
    toks,    \* every Some(pretoken) returned so far, in order
    stall,   \* loop iterations since the local cursor last moved (capped)
    starts,  \* non-consuming entries into StartTok during this call
    other,   \* a second Pretokenizer over the same input, not running now
    mark     \* a call boundary of the scanner, noted for a later comparison

vars == <<input, pos, line, pc, state, curs, ret, toks, stall, starts, other, mark>>

\* ------------------------------------------------------------------------
\* strcursor operations used by the code
\* ------------------------------------------------------------------------
NoCp == "none"

\* StrCursor::cp_after: the code point after the cursor, if any.
cp_after(s, c) == IF c < Len(s) THEN s[c + 1] ELSE NoCp

RECURSIVE byte_len(_)
\* Number of bytes of a sequence of code points.
byte_len(s) == IF s = <<>> THEN 0 ELSE len_utf8(Head(s)) + byte_len(Tail(s))

\* byte_pos counting code points instead of bytes.
byte_pos_cp(s, c) == c

\* StrCursor::byte_pos: the byte offset of the cursor.
byte_pos(s, c) == byte_len(SubSeq(s, 1, c))

\* StrCursor::slice_between: the code points between two cursors.
slice_between(s, start, end) == SubSeq(s, start + 1, end)

\* StrCursor::seek_next_cp
seek_next_cp(c) == c + 1

\* ------------------------------------------------------------------------
\* Return values
\* ------------------------------------------------------------------------
NotCalled == [tag |-> "NotCalled"]
None == [tag |-> "None"]

\* Pretoken::new
Pretoken_new(start, end, ln, offset) ==
    [tag |-> "Some", s |-> slice_between(input, start, end),
     line |-> ln, offset |-> offset]

\* No call boundary has been noted.
NoMark == [tag |-> "NoMark"]

\* Pretokenizer::new
Init ==
    /\ input \in AllInputs(MaxLen)
    /\ pos = 0
    /\ line = 1
    /\ pc = "idle"
    /\ state = "WS"
    /\ curs = 0
    /\ ret = NotCalled
    /\ toks = <<>>
    /\ stall = 0
    /\ starts = 0
    /\ other = [pos |-> 0, line |-> 1, pc |-> "idle", state |-> "WS", curs |-> 0,
                ret |-> NotCalled, toks |-> <<>>, stall |-> 0, starts |-> 0]
    /\ mark = NoMark

\* Call that keeps the `state` the previous call ended in instead of
\* starting in WS (lib.rs 211).
Call_keepstate ==
    /\ pc = "idle"
    /\ pc' = "loop"
    /\ curs' = pos
    /\ stall' = 0
    /\ starts' = 0
    /\ UNCHANGED <<mark, other, input, pos, line, state, ret, toks>>

\* Call that starts the local cursor at the start of the input instead of
\* at self.pos (lib.rs 215).
Call_restart ==
    /\ pc = "idle"
    /\ pc' = "loop"
    /\ state' = "WS"
    /\ curs' = 0
    /\ stall' = 0
    /\ starts' = 0
    /\ UNCHANGED <<mark, other, input, pos, line, ret, toks>>

\* The caller invokes next(): lib.rs 211-215.
Call ==
    /\ pc = "idle"
    /\ pc' = "loop"
    /\ state' = "WS"
    /\ curs' = pos
    /\ stall' = 0
    /\ starts' = 0
    /\ UNCHANGED <<mark, other, input, pos, line, ret, toks>>

\* Pretokenizer::make_pretok, followed by the return of next().
make_pretok(end) ==
    /\ pc' = "idle"
    /\ IF end = pos
       THEN /\ ret' = None
            /\ UNCHANGED <<pos, toks>>
       ELSE /\ pos' = end
            /\ ret' = Pretoken_new(pos, end, line, byte_pos(input, pos))
            /\ toks' = Append(toks, ret')

\* Bookkeeping of the loop: did this iteration move the local cursor?
Moved == curs' # curs
Track ==
    /\ stall' = IF Moved THEN 0 ELSE IF stall < 2 THEN stall + 1 ELSE 2
    /\ starts' = IF state' = "StartTok" /\ state # "StartTok" /\ ~Moved /\ starts < 3
                 THEN starts + 1 ELSE starts

\* The code point the loop looks at.
copt == cp_after(input, curs)

\* EndOfInput without `self.pos = curs` (lib.rs 242).
EndOfInput_nosync ==
    /\ pc = "loop"
    /\ copt = NoCp
    /\ IF state \in {"NormalTok", "QuotedTok", "EscapeChar"}
       THEN make_pretok(curs)
       ELSE /\ ret' = None
            /\ pc' = "idle"
            /\ UNCHANGED <<pos, toks>>
    /\ UNCHANGED <<mark, other, input, line, state, curs, stall, starts>>

\* EndOfInput that drops a quoted string ending right after a backslash
\* (STATE::EscapeChar missing at lib.rs 233).
EndOfInput_noescape ==
    /\ pc = "loop"
    /\ copt = NoCp
    /\ IF state \in {"NormalTok", "QuotedTok"}
       THEN make_pretok(curs)
       ELSE /\ pos' = curs
            /\ ret' = None
            /\ pc' = "idle"
            /\ UNCHANGED toks
    /\ UNCHANGED <<mark, other, input, line, state, curs, stall, starts>>

\* EndOfInput that flushes an unterminated block comment like an unquoted
\* pretoken (lib.rs 229-232 returning make_pretok).
EndOfInput_blockemit ==
    /\ pc = "loop"
    /\ copt = NoCp
    /\ IF state \in {"NormalTok", "QuotedTok", "EscapeChar",
                     "BlockComment", "MaybeBlockCommentDone"}
       THEN make_pretok(curs)
       ELSE /\ pos' = curs
            /\ ret' = None
            /\ pc' = "idle"
            /\ UNCHANGED toks
    /\ UNCHANGED <<mark, other, input, line, state, curs, stall, starts>>

\* End of input: lib.rs 223-244.
EndOfInput ==
    /\ pc = "loop"
    /\ copt = NoCp
    /\ IF state \in {"NormalTok", "QuotedTok", "EscapeChar"}
       THEN make_pretok(curs)
       ELSE /\ pos' = curs
            /\ ret' = None
            /\ pc' = "idle"
            /\ UNCHANGED toks
    /\ UNCHANGED <<mark, other, input, line, state, curs, stall, starts>>

\* STATE::WS: lib.rs 250-266.
WS ==
    /\ pc = "loop" /\ state = "WS" /\ copt # NoCp
    /\ CASE copt = NL ->
              line' = line + 1 /\ curs' = seek_next_cp(curs) /\ state' = state
         [] copt \in {SP, TAB} ->
              curs' = seek_next_cp(curs) /\ UNCHANGED <<line, state>>
         [] copt = SLASH ->
              state' = "MaybeComment" /\ curs' = seek_next_cp(curs) /\ UNCHANGED line
         [] OTHER ->
              state' = "StartTok" /\ UNCHANGED <<line, curs>>
    /\ Track
    /\ UNCHANGED <<mark, other, input, pos, pc, ret, toks>>

\* STATE::MaybeComment: lib.rs 270-284.
MaybeComment ==
    /\ pc = "loop" /\ state = "MaybeComment" /\ copt # NoCp
    /\ CASE copt = SLASH ->
              state' = "LineComment" /\ curs' = seek_next_cp(curs)
         [] copt = STAR ->
              state' = "BlockComment" /\ curs' = seek_next_cp(curs)
         [] OTHER ->
              state' = "StartTok" /\ UNCHANGED curs
    /\ Track
    /\ UNCHANGED <<mark, other, input, pos, line, pc, ret, toks>>

\* LineComment without `curs.seek_next_cp()` (lib.rs 291).
LineComment_noseek ==
    /\ pc = "loop" /\ state = "LineComment" /\ copt # NoCp
    /\ IF copt = NL
       THEN state' = "WS" /\ UNCHANGED curs
       ELSE UNCHANGED <<curs, state>>
    /\ Track
    /\ UNCHANGED <<mark, other, input, pos, line, pc, ret, toks>>

\* STATE::LineComment: lib.rs 286-293.
LineComment ==
    /\ pc = "loop" /\ state = "LineComment" /\ copt # NoCp
    /\ IF copt = NL
       THEN state' = "WS" /\ UNCHANGED curs
       ELSE curs' = seek_next_cp(curs) /\ UNCHANGED state
    /\ Track
    /\ UNCHANGED <<mark, other, input, pos, line, pc, ret, toks>>

\* STATE::BlockComment: lib.rs 295-306.
BlockComment ==
    /\ pc = "loop" /\ state = "BlockComment" /\ copt # NoCp
    /\ CASE copt = STAR ->
              state' = "MaybeBlockCommentDone" /\ UNCHANGED line
         [] copt = NL ->
              line' = line + 1 /\ UNCHANGED state
         [] OTHER ->
              UNCHANGED <<line, state>>
    /\ curs' = seek_next_cp(curs)
    /\ Track
    /\ UNCHANGED <<mark, other, input, pos, pc, ret, toks>>

\* STATE::MaybeBlockCommentDone: lib.rs 308-323.
MaybeBlockCommentDone ==
    /\ pc = "loop" /\ state = "MaybeBlockCommentDone" /\ copt # NoCp
    /\ CASE copt = SLASH ->
              state' = "WS" /\ UNCHANGED line
         [] copt = NL ->
              line' = line + 1 /\ state' = "BlockComment"
         [] OTHER ->
              state' = "BlockComment" /\ UNCHANGED line
    /\ curs' = seek_next_cp(curs)
    /\ Track
    /\ UNCHANGED <<mark, other, input, pos, pc, ret, toks>>

\* StartTok that syncs self.pos after the seek instead of before it
\* (lib.rs 329 moved below lib.rs 333/336).
StartTok_latesync ==
    /\ pc = "loop" /\ state = "StartTok" /\ copt # NoCp
    /\ pos' = seek_next_cp(curs)
    /\ IF copt = QUOTE
       THEN state' = "QuotedTok" /\ curs' = seek_next_cp(curs)
       ELSE state' = "NormalTok" /\ curs' = seek_next_cp(curs)
    /\ Track
    /\ UNCHANGED <<mark, other, input, line, pc, ret, toks>>

\* STATE::StartTok: lib.rs 325-338.
StartTok ==
    /\ pc = "loop" /\ state = "StartTok" /\ copt # NoCp
    /\ pos' = curs
    /\ IF copt = QUOTE
       THEN state' = "QuotedTok" /\ curs' = seek_next_cp(curs)
       ELSE state' = "NormalTok" /\ curs' = seek_next_cp(curs)
    /\ Track
    /\ UNCHANGED <<mark, other, input, line, pc, ret, toks>>

\* NormalTok that treats a backslash as QuotedTok does (lib.rs 392-394):
\* the code point after it is consumed whatever it is.
NormalTok_escape ==
    /\ pc = "loop" /\ state = "NormalTok" /\ copt # NoCp
    /\ LET temp == seek_next_cp(curs)
           temp_copt == cp_after(input, temp)
           Return(end) == make_pretok(end) /\ UNCHANGED <<state, curs, stall, starts>>
           Consume == /\ curs' = seek_next_cp(curs)
                      /\ UNCHANGED <<state, pos, pc, ret, toks>>
                      /\ Track
           Escape == /\ curs' = IF temp_copt = NoCp THEN temp ELSE seek_next_cp(temp)
                     /\ UNCHANGED <<state, pos, pc, ret, toks>>
                     /\ Track
       IN CASE copt \in {SP, TAB} -> Return(curs)
            [] copt = NL -> Return(curs)
            [] copt = QUOTE -> Return(curs)
            [] copt = BSLASH -> Escape
            [] copt = SLASH ->
                 IF temp_copt = NoCp THEN Return(temp)
                 ELSE IF temp_copt \in {SLASH, STAR} THEN Return(curs)
                 ELSE Consume
            [] OTHER -> Consume
    /\ UNCHANGED <<mark, other, input, line>>

\* NormalTok whose peek never finds a comment (lib.rs 367-370 left out):
\* a `/` that is not the last code point is consumed.
NormalTok_keepslash ==
    /\ pc = "loop" /\ state = "NormalTok" /\ copt # NoCp
    /\ LET temp == seek_next_cp(curs)
           temp_copt == cp_after(input, temp)
           Return(end) == make_pretok(end) /\ UNCHANGED <<state, curs, stall, starts>>
           Consume == /\ curs' = seek_next_cp(curs)
                      /\ UNCHANGED <<state, pos, pc, ret, toks>>
                      /\ Track
       IN CASE copt \in {SP, TAB} -> Return(curs)
            [] copt = NL -> Return(curs)
            [] copt = QUOTE -> Return(curs)
            [] copt = SLASH ->
                 IF temp_copt = NoCp THEN Return(temp) ELSE Consume
            [] OTHER -> Consume
    /\ UNCHANGED <<mark, other, input, line>>

\* NormalTok without the peek of lib.rs 359-377: every `/` ends the
\* pretoken.
NormalTok_nopeek ==
    /\ pc = "loop" /\ state = "NormalTok" /\ copt # NoCp
    /\ LET Return(end) == make_pretok(end) /\ UNCHANGED <<state, curs, stall, starts>>
           Consume == /\ curs' = seek_next_cp(curs)
                      /\ UNCHANGED <<state, pos, pc, ret, toks>>
                      /\ Track
       IN CASE copt \in {SP, TAB} -> Return(curs)
            [] copt = NL -> Return(curs)
            [] copt = QUOTE -> Return(curs)
            [] copt = SLASH -> Return(curs)
            [] OTHER -> Consume
    /\ UNCHANGED <<mark, other, input, line>>

\* STATE::NormalTok: lib.rs 340-381.
NormalTok ==
    /\ pc = "loop" /\ state = "NormalTok" /\ copt # NoCp
    /\ LET temp == seek_next_cp(curs)
           temp_copt == cp_after(input, temp)
           Return(end) == make_pretok(end) /\ UNCHANGED <<state, curs, stall, starts>>
           Consume == /\ curs' = seek_next_cp(curs)
                      /\ UNCHANGED <<state, pos, pc, ret, toks>>
                      /\ Track
       IN CASE copt \in {SP, TAB} -> Return(curs)
            [] copt = NL -> Return(curs)
            [] copt = QUOTE -> Return(curs)
            [] copt = SLASH ->
                 IF temp_copt = NoCp
                 THEN Return(temp)
                 ELSE IF temp_copt \in {SLASH, STAR}
                      THEN Return(curs)
                      ELSE Consume
            [] OTHER -> Consume
    /\ UNCHANGED <<mark, other, input, line>>

\* QuotedTok without the `curs.seek_next_cp()` of lib.rs 390: the closing
\* quote is left out of the pretoken.
QuotedTok_noclose ==
    /\ pc = "loop" /\ state = "QuotedTok" /\ copt # NoCp
    /\ IF copt = QUOTE
       THEN /\ make_pretok(curs)
            /\ UNCHANGED <<line, state, curs, stall, starts>>
       ELSE /\ CASE copt = NL -> line' = line + 1 /\ UNCHANGED state
                 [] copt = BSLASH -> state' = "EscapeChar" /\ UNCHANGED line
                 [] OTHER -> UNCHANGED <<line, state>>
            /\ curs' = seek_next_cp(curs)
            /\ Track
            /\ UNCHANGED <<pos, pc, ret, toks>>
    /\ UNCHANGED <<mark, other, input>>

\* STATE::QuotedTok: lib.rs 382-401.
QuotedTok ==
    /\ pc = "loop" /\ state = "QuotedTok" /\ copt # NoCp
    /\ IF copt = QUOTE
       THEN /\ make_pretok(seek_next_cp(curs))
            /\ UNCHANGED <<line, state, curs, stall, starts>>
       ELSE /\ CASE copt = NL -> line' = line + 1 /\ UNCHANGED state
                 [] copt = BSLASH -> state' = "EscapeChar" /\ UNCHANGED line
                 [] OTHER -> UNCHANGED <<line, state>>
            /\ curs' = seek_next_cp(curs)
            /\ Track
            /\ UNCHANGED <<pos, pc, ret, toks>>
    /\ UNCHANGED <<mark, other, input>>

\* EscapeChar without the newline count of lib.rs 403-405.
EscapeChar_noline ==
    /\ pc = "loop" /\ state = "EscapeChar" /\ copt # NoCp
    /\ state' = "QuotedTok"
    /\ curs' = seek_next_cp(curs)
    /\ Track
    /\ UNCHANGED <<mark, other, input, pos, line, pc, ret, toks>>

\* STATE::EscapeChar: lib.rs 402-408.
EscapeChar ==
    /\ pc = "loop" /\ state = "EscapeChar" /\ copt # NoCp
    /\ line' = IF copt = NL THEN line + 1 ELSE line
    /\ state' = "QuotedTok"
    /\ curs' = seek_next_cp(curs)
    /\ Track
    /\ UNCHANGED <<mark, other, input, pos, pc, ret, toks>>

Next ==
    \/ Call
    \/ EndOfInput
    \/ WS
    \/ MaybeComment
    \/ LineComment
    \/ BlockComment
    \/ MaybeBlockCommentDone
    \/ StartTok
    \/ NormalTok
    \/ QuotedTok
    \/ EscapeChar

Spec == Init /\ [][Next]_vars

\* A running loop keeps running and the caller keeps calling next(), as the
\* fuzz target's `while pretok.next().is_some() {}` does.
InitLive == Init /\ Len(input) <= MaxLiveLen
FairSpec == InitLive /\ [][Next]_vars /\ WF_vars(Next)

\* The fields and locals of the scanner that is running.
Running ==
    [pos |-> pos, line |-> line, pc |-> pc, state |-> state, curs |-> curs,
     ret |-> ret, toks |-> toks, stall |-> stall, starts |-> starts]

\* Switch with a line counter that the two scanners share.
Switch_sharedline ==
    /\ pos' = other.pos /\ line' = line /\ pc' = other.pc
    /\ state' = other.state /\ curs' = other.curs /\ ret' = other.ret
    /\ toks' = other.toks /\ stall' = other.stall /\ starts' = other.starts
    /\ other' = Running
    /\ UNCHANGED <<mark, input>>

\* The other scanner goes on and this one waits.  Each Pretokenizer has its
\* own pos and line and its own locals in next(); the input is shared and
\* read-only (lib.rs 159-166, 196-215).
Switch ==
    /\ pos' = other.pos /\ line' = other.line /\ pc' = other.pc
    /\ state' = other.state /\ curs' = other.curs /\ ret' = other.ret
    /\ toks' = other.toks /\ stall' = other.stall /\ starts' = other.starts
    /\ other' = Running
    /\ UNCHANGED <<mark, input>>

\* Two scanners over one input, their loop iterations interleaved in any
\* order.
InitTwo == Init /\ Len(input) <= MaxPairLen
NextTwo == Next \/ Switch
TwoSpec == InitTwo /\ [][NextTwo]_vars

\* A block comment whose closing `/` follows two `*`.
BlockHead == <<SLASH, STAR, STAR, STAR, SLASH>>

\* A scanner over an input that opens with that block comment.
InitBlock ==
    /\ input \in {BlockHead \o t : t \in AllInputs(MaxTailLen)}
    /\ pos = 0
    /\ line = 1
    /\ pc = "idle"
    /\ state = "WS"
    /\ curs = 0
    /\ ret = NotCalled
    /\ toks = <<>>
    /\ stall = 0
    /\ starts = 0
    /\ other = [pos |-> 0, line |-> 1, pc |-> "idle", state |-> "WS", curs |-> 0,
                ret |-> NotCalled, toks |-> <<>>, stall |-> 0, starts |-> 0]
    /\ mark = NoMark
BlockSpec == InitBlock /\ [][Next]_vars

\* The caller notes the resume position and the line counter that a call
\* has left (Pretokenizer.pos and Pretokenizer.line, lib.rs 159-166), and
\* how many pretokens it has got so far.
Mark ==
    /\ pc = "idle" /\ ret # NotCalled /\ mark = NoMark
    /\ mark' = [tag |-> "Marked", p |-> pos, pb |-> byte_pos(input, pos),
                L |-> line, n |-> Len(toks), rest |-> <<>>, fresh |-> FALSE]
    /\ UNCHANGED <<input, pos, line, pc, state, curs, ret, toks, stall, starts, other>>

\* The scanner has been iterated to completion; the caller keeps the
\* pretokens returned since the noted boundary and constructs a new
\* scanner on the rest of the input from the noted position on:
\* Pretokenizer::new(&s[p..]).
Fresh ==
    /\ pc = "idle" /\ ret = None
    /\ mark # NoMark /\ ~mark.fresh
    /\ mark' = [mark EXCEPT !.rest = SubSeq(toks, mark.n + 1, Len(toks)),
                            !.fresh = TRUE]
    /\ input' = SubSeq(input, mark.p + 1, Len(input))
    /\ pos' = 0
    /\ line' = 1
    /\ state' = "WS"
    /\ curs' = 0
    /\ ret' = NotCalled
    /\ toks' = <<>>
    /\ stall' = 0
    /\ starts' = 0
    /\ UNCHANGED <<pc, other>>

\* A scanner iterated to completion, then a fresh scanner on a suffix.
InitRestart == Init /\ Len(input) <= MaxRestartLen
NextRestart == Next \/ Mark \/ Fresh
RestartSpec == InitRestart /\ [][NextRestart]_vars

TypeOK ==
    /\ pos \in 0..Len(input)
    /\ curs \in 0..Len(input)
    /\ line \in 1..(Len(input) + 1)
    /\ pc \in {"idle", "loop"}

\* ------------------------------------------------------------------------
\* Properties
\* ------------------------------------------------------------------------

\* C1: end of input is final.  Once a call has returned None, every later
\* call returns None too, and neither the resume position nor the line
\* counter changes any more.
EndIsFinal ==
    [][ret = None => (ret' = None /\ pos' = pos /\ line' = line)]_vars

\* A later call is running after None was returned, on an input with
\* pretokens and newlines.
EndIsFinalWitness ==
    /\ ret = None /\ pc = "loop" /\ state = "WS"
    /\ toks # <<>> /\ line > 1

\* C2: termination.  The loop never runs two iterations in a row without
\* moving its cursor, enters StartTok without consuming at most twice per
\* call, every call returns, and repeated calls reach None.
Termination ==
    /\ [](stall <= 1 /\ starts <= 2)
    /\ (pc = "loop" ~> pc = "idle")
    /\ <>(ret = None)

\* The last call has returned None on an input with a pretoken and a line
\* comment, which handed its newline to WS without consuming it.
TerminationWitness ==
    /\ ret = None /\ pc = "idle" /\ Len(toks) = 1
    /\ line > 1 /\ stall = 0 /\ pos = Len(input)
    /\ \E i \in 1..(Len(input) - 1) : input[i] = SLASH /\ input[i + 1] = SLASH

\* ------------------------------------------------------------------------
\* What the documentation calls whitespace, comment and quoted string
\* ------------------------------------------------------------------------
RECURSIVE Lab(_, _, _, _)
\* Reads s from code point i on in the given mode and appends to acc, for
\* every code point, what it is: "WS" whitespace outside a quoted string,
\* "LC" part of a // comment, "BC" part of a /* */ comment, "Q" part of a
\* quoted string, "T" any other text.
Lab(s, i, mode, acc) ==
    IF i > Len(s) THEN acc
    ELSE LET c == s[i]
             n == IF i < Len(s) THEN s[i + 1] ELSE NoCp
         IN CASE mode = "out" ->
                   IF c = SLASH /\ n = SLASH THEN Lab(s, i + 1, "lc", Append(acc, "LC"))
                   ELSE IF c = SLASH /\ n = STAR THEN Lab(s, i + 1, "bcopen", Append(acc, "BC"))
                   ELSE IF c = QUOTE THEN Lab(s, i + 1, "q", Append(acc, "Q"))
                   ELSE IF c \in {SP, TAB, NL} THEN Lab(s, i + 1, "out", Append(acc, "WS"))
                   ELSE Lab(s, i + 1, "out", Append(acc, "T"))
              [] mode = "lc" ->
                   IF c = NL THEN Lab(s, i + 1, "out", Append(acc, "WS"))
                   ELSE Lab(s, i + 1, "lc", Append(acc, "LC"))
              [] mode = "bcopen" ->
                   Lab(s, i + 1, "bc", Append(acc, "BC"))
              [] mode = "bc" ->
                   Lab(s, i + 1, IF c = STAR THEN "bcstar" ELSE "bc", Append(acc, "BC"))
              [] mode = "bcstar" ->
                   Lab(s, i + 1, IF c = SLASH THEN "out" ELSE IF c = STAR THEN "bcstar" ELSE "bc",
                       Append(acc, "BC"))
              [] mode = "q" ->
                   Lab(s, i + 1, IF c = QUOTE THEN "out" ELSE IF c = BSLASH THEN "qe" ELSE "q",
                       Append(acc, "Q"))
              [] mode = "qe" ->
                   Lab(s, i + 1, "q", Append(acc, "Q"))

Labels == Lab(input, 1, "out", <<>>)

\* The bytes of pretoken t are input[t.offset .. TokEnd(t)).
TokEnd(t) == t.offset + byte_len(t.s)

\* Code point i of the input lies in an emitted pretoken.
Covered(i) ==
    \E k \in 1..Len(toks) :
        /\ toks[k].offset <= byte_pos(input, i - 1)
        /\ byte_pos(input, i) <= TokEnd(toks[k])

\* The scanner has been iterated to completion.
Completed == pc = "idle" /\ ret = None

\* Number of newlines among the first b bytes of the input.
NewlinesBefore(b) ==
    Cardinality({i \in 1..Len(input) : input[i] = NL /\ byte_pos(input, i) <= b})

\* C3: after iterating to completion, every code point of the input that
\* lies in no pretoken is whitespace outside a quoted string or part of a
\* line or block comment.
OnlyWhitespaceAndCommentsDropped ==
    Completed =>
        \A i \in 1..Len(input) : ~Covered(i) => Labels[i] \in {"WS", "LC", "BC"}

\* C4: the line of every pretoken is 1 plus the number of newlines of the
\* input before the end of the pretoken.
LineIsLastLine ==
    \A k \in 1..Len(toks) : toks[k].line = 1 + NewlinesBefore(TokEnd(toks[k]))

\* C5: a pretoken that does not begin with a quote contains no space, tab or
\* newline.
NoWhitespaceInUnquoted ==
    \A k \in 1..Len(toks) :
        toks[k].s[1] # QUOTE =>
            \A j \in 1..Len(toks[k].s) : toks[k].s[j] \notin {SP, TAB, NL}

\* C6: no pretoken contains a code point of a line or block comment, and
\* once the input is iterated to completion, text that follows a comment
\* has been emitted in a pretoken that starts after that comment.
CommentsFiltered ==
    /\ \A i \in 1..Len(input) : Labels[i] \in {"LC", "BC"} => ~Covered(i)
    /\ Completed =>
         \A i \in 1..Len(input) :
             (/\ Labels[i] \in {"LC", "BC"}
              /\ \E j \in (i + 1)..Len(input) : Labels[j] \in {"T", "Q"})
             => \E k \in 1..Len(toks) : toks[k].offset >= byte_pos(input, i)

\* ------------------------------------------------------------------------
\* Bytes and quoted strings
\* ------------------------------------------------------------------------
RECURSIVE Bytes(_)
\* The UTF-8 bytes of a sequence of code points.
Bytes(s) ==
    IF s = <<>> THEN <<>>
    ELSE (IF Head(s) = WIDE THEN <<"U1", "U2">> ELSE <<Head(s)>>) \o Bytes(Tail(s))

\* The number of code points before byte offset b of the input.
CpAt(b) == CHOOSE c \in 0..Len(input) : byte_len(SubSeq(input, 1, c)) = b

RECURSIVE CloseQuote(_, _, _)
\* The index of the first quote of s at or after i that no backslash
\* escapes (esc: code point i follows an active backslash), 0 if none.
CloseQuote(s, i, esc) ==
    IF i > Len(s) THEN 0
    ELSE IF esc THEN CloseQuote(s, i + 1, FALSE)
    ELSE IF s[i] = QUOTE THEN i
    ELSE CloseQuote(s, i + 1, s[i] = BSLASH)

RECURSIVE BackslashRun(_, _)
\* The number of consecutive backslashes of s that end at index j, the
\* opening quote at index 1 excluded.
BackslashRun(s, j) ==
    IF j <= 1 \/ s[j] # BSLASH THEN 0 ELSE 1 + BackslashRun(s, j - 1)

\* Code point j of the quoted string s follows an active backslash.
Escaped(s, j) == BackslashRun(s, j - 1) % 2 = 1

IsQuoted(t) == t.tag = "Some" /\ t.s[1] = QUOTE

\* The quoted pretoken t has no closing quote in the input.
Unterminated(t) == IsQuoted(t) /\ CloseQuote(input, CpAt(t.offset) + 2, FALSE) = 0

\* C7: the text of every pretoken is the input slice
\* input[offset .. offset+len(text)), and of two consecutive pretokens the
\* later starts at or after the end of the earlier, at a larger offset.
OffsetsAgree ==
    /\ \A k \in 1..Len(toks) :
         Bytes(toks[k].s) = SubSeq(Bytes(input), toks[k].offset + 1, TokEnd(toks[k]))
    /\ \A k \in 1..(Len(toks) - 1) :
         /\ toks[k + 1].offset >= TokEnd(toks[k])
         /\ toks[k + 1].offset > toks[k].offset

\* Two pretokens with whitespace between them, the first one with a
\* two-byte code point.
OffsetsAgreeWitness ==
    /\ Len(toks) = 2
    /\ toks[2].offset > TokEnd(toks[1])
    /\ \E j \in 1..Len(toks[1].s) : toks[1].s[j] = WIDE

\* C8: a pretoken that starts with a quote runs from that quote through the
\* first later unescaped quote, with everything in between kept as it is.
QuotedIsOnePretoken ==
    \A k \in 1..Len(toks) :
        IsQuoted(toks[k]) =>
            LET p == CpAt(toks[k].offset)
                e == CloseQuote(input, p + 2, FALSE)
            IN e # 0 => toks[k].s = SubSeq(input, p + 1, e)

\* A closed quoted pretoken that holds a comment opener, after other text.
QuotedIsOnePretokenWitness ==
    \E k \in 1..Len(toks) :
        /\ IsQuoted(toks[k]) /\ toks[k].offset > 0
        /\ Len(toks[k].s) = 4 /\ toks[k].s[4] = QUOTE
        /\ toks[k].s[2] = SLASH /\ toks[k].s[3] \in {SLASH, STAR}

\* C9: in a quoted pretoken a quote after an active backslash does not close
\* the string (the pretoken goes on, or the input ends there), a quote
\* after an escaped backslash closes it, and a newline that follows a
\* backslash adds exactly one to the line counter.
EscapesAreLiteral ==
    /\ [](\A k \in 1..Len(toks) :
            IsQuoted(toks[k]) =>
                \A j \in 2..Len(toks[k].s) :
                    toks[k].s[j] = QUOTE =>
                        IF Escaped(toks[k].s, j)
                        THEN j < Len(toks[k].s) \/ TokEnd(toks[k]) = byte_len(input)
                        ELSE j = Len(toks[k].s))
    /\ [][(/\ pc = "loop" /\ state \in {"QuotedTok", "EscapeChar"}
           /\ curs >= 1 /\ input[curs] = BSLASH /\ copt = NL)
          => (line' = line + 1 /\ curs' = curs + 1 /\ pc' = "loop")]_vars

\* A quoted pretoken with an escaped newline and an escaped quote, on line 2.
EscapesAreLiteralWitness ==
    \E k \in 1..Len(toks) :
        /\ Len(toks[k].s) = 5 /\ toks[k].line = 2
        /\ toks[k].s[1] = QUOTE /\ toks[k].s[2] = BSLASH /\ toks[k].s[3] = NL
        /\ toks[k].s[4] = BSLASH /\ toks[k].s[5] = QUOTE

\* C10: when the input ends inside a quoted string, also right after a
\* backslash, the call returns a pretoken from the opening quote to the end
\* of the input, it is the last pretoken, and the next call returns None.
UnterminatedQuoteEmitted ==
    /\ [](\A k \in 1..Len(toks) :
            Unterminated(toks[k]) =>
                /\ toks[k].s = SubSeq(input, CpAt(toks[k].offset) + 1, Len(input))
                /\ k = Len(toks))
    /\ [][(pc = "loop" /\ state \in {"QuotedTok", "EscapeChar"} /\ copt = NoCp)
          => (/\ pc' = "idle" /\ IsQuoted(ret') /\ Unterminated(ret')
              /\ TokEnd(ret') = byte_len(input) /\ pos' = Len(input))]_vars
    /\ [][(pc = "loop" /\ pc' = "idle" /\ Unterminated(ret)) => ret' = None]_vars

\* The call after an unterminated quoted pretoken that ends with a
\* backslash has returned None.
UnterminatedQuoteEmittedWitness ==
    /\ Completed /\ toks # <<>>
    /\ Unterminated(toks[Len(toks)])
    /\ toks[Len(toks)].s[Len(toks[Len(toks)].s)] = BSLASH
    /\ toks[Len(toks)].offset > 0
\* ------------------------------------------------------------------------
\* End of input in a comment, progress, cursors
\* ------------------------------------------------------------------------

\* C11: when the input ends in state BlockComment or MaybeBlockCommentDone,
\* the call returns None, no pretoken reaches into the text the call has
\* scanned (the comment from its opening /* to the end of the input), and
\* the pretokens emitted before are unchanged.
UnterminatedBlockDiscarded ==
    [][(/\ pc = "loop" /\ copt = NoCp
        /\ state \in {"BlockComment", "MaybeBlockCommentDone"})
       => (/\ pc' = "idle" /\ ret' = None /\ toks' = toks
           /\ \A k \in 1..Len(toks') : TokEnd(toks'[k]) <= byte_pos(input, pos))]_vars

\* A call has returned None at the end of an unterminated block comment
\* that follows a pretoken.
UnterminatedBlockDiscardedWitness ==
    /\ Completed /\ toks # <<>>
    /\ state \in {"BlockComment", "MaybeBlockCommentDone"}
    /\ curs = Len(input) /\ pos = Len(input)
    /\ byte_pos(input, pos) > TokEnd(toks[Len(toks)])

\* C12: the resume position never moves backward and the line counter
\* never decreases, so the lines and the offsets of successive pretokens
\* are non-decreasing.
MonotonicProgress ==
    /\ [][pos' >= pos /\ line' >= line]_vars
    /\ [](\A k \in 1..(Len(toks) - 1) :
            /\ toks[k + 1].line >= toks[k].line
            /\ toks[k + 1].offset >= toks[k].offset)

\* Two pretokens on different lines.
MonotonicProgressWitness ==
    /\ Len(toks) = 2
    /\ toks[2].line > toks[1].line
    /\ toks[2].offset > toks[1].offset

\* C13: the cursors stay within the input, the start cursor of a pretoken
\* under construction is at or before the end cursor, and every pretoken is
\* the slice between two code point boundaries of the input.
NoPanic ==
    /\ pos \in 0..Len(input)
    /\ curs \in 0..Len(input)
    /\ pc = "loop" => pos <= curs
    /\ \A k \in 1..Len(toks) :
         \E c \in 0..Len(input) :
             /\ byte_pos(input, c) = toks[k].offset
             /\ \E d \in c..Len(input) :
                    /\ byte_pos(input, d) = TokEnd(toks[k])
                    /\ toks[k].s = SubSeq(input, c + 1, d)

\* A pretoken with a two-byte code point was sliced out and the loop is in
\* the middle of the next pretoken.
NoPanicWitness ==
    /\ Len(toks) = 1 /\ \E j \in 1..Len(toks[1].s) : toks[1].s[j] = WIDE
    /\ pc = "loop" /\ state = "NormalTok" /\ pos < curs
\* ------------------------------------------------------------------------
\* Slashes and block comments
\* ------------------------------------------------------------------------

\* The mode in which the documentation reads the code point after c, when c
\* is read in the given mode and n is the code point after c.
RefStep(mode, c, n) ==
    CASE mode = "out" ->
           IF c = SLASH /\ n = SLASH THEN "lc"
           ELSE IF c = SLASH /\ n = STAR THEN "bcopen"
           ELSE IF c = QUOTE THEN "q"
           ELSE "out"
      [] mode = "lc" -> IF c = NL THEN "out" ELSE "lc"
      [] mode = "bcopen" -> "bc"
      [] mode = "bc" -> IF c = STAR THEN "bcstar" ELSE "bc"
      [] mode = "bcstar" ->
           IF c = SLASH THEN "out" ELSE IF c = STAR THEN "bcstar" ELSE "bc"
      [] mode = "q" ->
           IF c = QUOTE THEN "out" ELSE IF c = BSLASH THEN "qe" ELSE "q"
      [] mode = "qe" -> "q"

RECURSIVE ModeAfter(_, _)
\* The mode after the first n code points of s.
ModeAfter(s, n) ==
    IF n = 0 THEN "out"
    ELSE RefStep(ModeAfter(s, n - 1), s[n], cp_after(s, n))

\* Code point i of the input is the `/` that closes a block comment.
BlockClosedAt(i) ==
    i >= 1 /\ Labels[i] = "BC" /\ ModeAfter(input, i) = "out"

\* Code point i of the input is a `/` that opens no comment, starts a token
\* and is followed by another code point.
LoneSlashAtStart(i) ==
    /\ input[i] = SLASH /\ Labels[i] = "T" /\ i < Len(input)
    /\ i = 1 \/ Labels[i - 1] # "T"

\* C15: a `/` met while skipping whitespace whose next code point is neither
\* `/` nor `*` starts the next pretoken: once the input is iterated to
\* completion, a pretoken that begins with `/` starts at its offset.
LoneSlashStartsToken ==
    Completed =>
        \A i \in 1..Len(input) :
            LoneSlashAtStart(i) =>
                \E k \in 1..Len(toks) :
                    /\ toks[k].offset = byte_pos(input, i - 1)
                    /\ toks[k].s[1] = SLASH

\* C16: a block comment closes at the first `/` that follows a `*` other
\* than the `*` of its opener, however many `*` come before it: the
\* iteration that consumes this `/` leaves the loop in WS.
BlockClosesAtFirstStarSlash ==
    [][(pc = "loop" /\ pc' = "loop" /\ curs' = curs + 1 /\ BlockClosedAt(curs'))
       => state' = "WS"]_vars
\* C17: while an unquoted pretoken is accumulated, a `/` followed by `/` or
\* `*` ends the pretoken before that `/`, a `/` followed by any other code
\* point stays in the pretoken, and a `/` that ends the input is included.
SlashInToken ==
    [][(pc = "loop" /\ state = "NormalTok" /\ copt = SLASH)
       => LET n == cp_after(input, curs + 1)
          IN IF n = NoCp
             THEN /\ pc' = "idle" /\ ret'.tag = "Some"
                  /\ ret'.s[Len(ret'.s)] = SLASH
                  /\ TokEnd(ret') = byte_len(input) /\ pos' = Len(input)
             ELSE IF n \in {SLASH, STAR}
             THEN /\ pc' = "idle" /\ ret'.tag = "Some"
                  /\ TokEnd(ret') = byte_pos(input, curs) /\ pos' = curs
             ELSE /\ pc' = "loop" /\ state' = "NormalTok"
                  /\ curs' = curs + 1 /\ toks' = toks]_vars

\* A pretoken with a `/` inside that was ended by a comment opener.
SlashInTokenWitness ==
    \E k \in 1..Len(toks) :
        /\ toks[k].s = <<LETTER, SLASH, LETTER>>
        /\ Len(input) = CpAt(TokEnd(toks[k])) + 2
        /\ input[Len(input) - 1] = SLASH
        /\ input[Len(input)] \in {SLASH, STAR}

\* C18: a quote met in unquoted text ends the pretoken before the quote,
\* the next pretoken begins at that quote, and text directly after a
\* closing quote starts a further pretoken; no pretoken that does not begin
\* with a quote contains a quote.
QuoteSplitsText ==
    /\ \A k \in 1..Len(toks) :
         ~IsQuoted(toks[k]) =>
             \A j \in 1..Len(toks[k].s) : toks[k].s[j] # QUOTE
    /\ \A k \in 1..Len(toks) :
         LET e == CpAt(TokEnd(toks[k]))
         IN (~IsQuoted(toks[k]) /\ cp_after(input, e) = QUOTE) =>
                /\ k < Len(toks) =>
                     toks[k + 1].offset = TokEnd(toks[k]) /\ IsQuoted(toks[k + 1])
                /\ Completed => k < Len(toks)
    /\ \A k \in 1..Len(toks) :
         LET e == CpAt(TokEnd(toks[k]))
         IN (/\ IsQuoted(toks[k]) /\ ~Unterminated(toks[k])
             /\ e < Len(input) /\ Labels[e + 1] \in {"T", "Q"}) =>
                /\ k < Len(toks) => toks[k + 1].offset = TokEnd(toks[k])
                /\ Completed => k < Len(toks)
\* ------------------------------------------------------------------------
\* End-of-input sync and empty pretokens
\* ------------------------------------------------------------------------

\* C19: a call during which the lookahead reached the end of the input
\* leaves the resume position at the end of the input, whether it returned
\* a pretoken or None; None is only returned with the resume position at
\* the end of the input.
EndOfInputSync ==
    /\ [][(/\ pc = "loop" /\ pc' = "idle"
           /\ \/ copt = NoCp
              \/ (state = "NormalTok" /\ copt = SLASH
                  /\ cp_after(input, curs + 1) = NoCp))
          => pos' = Len(input)]_vars
    /\ [](Completed => pos = Len(input))

\* The second call returned a final pretoken after peeking past a
\* trailing `/`.
EndOfInputSyncWitness ==
    /\ pc = "idle" /\ ret.tag = "Some" /\ Len(toks) = 2
    /\ ret.s[Len(ret.s)] = SLASH /\ Len(ret.s) >= 2
    /\ pos = Len(input) /\ curs = Len(input) - 1

\* C20: every pretoken has a non-empty text, after a call that returns a
\* pretoken the resume position is its offset plus its byte length, and
\* None is never returned by the `end == self.pos` guard of make_pretok:
\* only by the end-of-input path of the whitespace and comment states.
NoEmptyPretokens ==
    /\ [](\A k \in 1..Len(toks) : Len(toks[k].s) >= 1)
    /\ [](pc = "idle" /\ ret.tag = "Some" => byte_pos(input, pos) = TokEnd(ret))
    /\ [][(pc = "loop" /\ pc' = "idle" /\ ret' = None)
          => (/\ copt = NoCp
              /\ state \notin {"NormalTok", "QuotedTok", "EscapeChar"})]_vars

\* A call has returned a pretoken of one two-byte code point, with input
\* left before and after it.
NoEmptyPretokensWitness ==
    /\ pc = "idle" /\ ret.tag = "Some"
    /\ ret.s = <<WIDE>> /\ ret.offset > 0
    /\ pos < Len(input)
\* ------------------------------------------------------------------------
\* Two scanners
\* ------------------------------------------------------------------------

\* a is a prefix of b.
IsPrefix(a, b) == Len(a) <= Len(b) /\ a = SubSeq(b, 1, Len(a))

\* C14: two scanners over the same input, advanced in any interleaving,
\* return the same pretokens: at any time the pretokens one has returned
\* are a prefix of those of the other, and once both have returned None
\* both have returned the same sequence and stand at the same position and
\* line.
IndependentScanners ==
    /\ IsPrefix(toks, other.toks) \/ IsPrefix(other.toks, toks)
    /\ (Completed /\ other.pc = "idle" /\ other.ret = None) =>
           /\ toks = other.toks
           /\ pos = other.pos /\ line = other.line

\* Both scanners are inside next(): one has returned a pretoken and is in
\* its second call, the other is in the middle of its first call.
IndependentScannersWitness ==
    /\ pc = "loop" /\ other.pc = "loop"
    /\ Len(toks) = 1 /\ other.toks = <<>>
    /\ other.curs > 0 /\ other.curs < curs
    /\ line > other.line
\* ------------------------------------------------------------------------
\* Inputs with nothing to emit
\* ------------------------------------------------------------------------

\* The input is made only of whitespace, line comments and closed block
\* comments; a line comment may run to the end of the input.
NothingToEmit ==
    /\ \A i \in 1..Len(input) : Labels[i] \in {"WS", "LC", "BC"}
    /\ ModeAfter(input, Len(input)) \in {"out", "lc"}

\* C21: on an input made only of spaces, tabs, newlines, line comments and
\* block comments, every call returns None and no pretoken is emitted.
NothingEmitted ==
    NothingToEmit => toks = <<>> /\ ret \in {NotCalled, None}
\* ------------------------------------------------------------------------
\* Comment openers
\* ------------------------------------------------------------------------

\* C22: no pretoken that does not begin with a quote contains the two
\* code points `//` or `/*` one after the other.
NoCommentOpenerInUnquoted ==
    \A k \in 1..Len(toks) :
        toks[k].s[1] # QUOTE =>
            \A j \in 1..(Len(toks[k].s) - 1) :
                ~(toks[k].s[j] = SLASH /\ toks[k].s[j + 1] \in {SLASH, STAR})

\* An unquoted pretoken that holds a `/` and was cut in front of a comment
\* opener.
NoCommentOpenerInUnquotedWitness ==
    \E k \in 1..Len(toks) :
        /\ toks[k].s[1] # QUOTE
        /\ \E j \in 1..Len(toks[k].s) : toks[k].s[j] = SLASH
        /\ LET e == CpAt(TokEnd(toks[k]))
           IN /\ e + 2 <= Len(input)
              /\ input[e + 1] = SLASH
              /\ input[e + 2] \in {SLASH, STAR}
\* ------------------------------------------------------------------------
\* Call boundaries
\* ------------------------------------------------------------------------

\* The pretokens of the fresh scanner, with the noted byte offset added to
\* every offset and the noted line counter less one added to every line.
Shifted ==
    [k \in 1..Len(toks) |->
        [toks[k] EXCEPT !.offset = @ + mark.pb, !.line = @ + mark.L - 1]]

\* C23: the pretokens a scanner returns after a call that left resume
\* position p and line counter L are those a fresh scanner returns on the
\* input from p on, with p added to every offset and L - 1 to every line.
RestartsCleanly ==
    (mark # NoMark /\ mark.fresh) =>
        /\ IsPrefix(Shifted, mark.rest)
        /\ Completed => Shifted = mark.rest

\* A fresh scanner on a suffix that starts behind a newline and a
\* pretoken has returned a pretoken and, after it, None.
RestartsCleanlyWitness ==
    /\ mark # NoMark /\ mark.fresh /\ Completed
    /\ mark.p > 0 /\ mark.L > 1 /\ mark.n > 0
    /\ Len(toks) > 0
\* ------------------------------------------------------------------------
\* Backslashes outside quoted strings
\* ------------------------------------------------------------------------

\* C24: a backslash escapes nothing in unquoted text.  A pretoken that
\* does not begin with a quote and holds a backslash that a quote, space,
\* tab or newline follows ends with that backslash; and once the input is
\* iterated to completion, a quote that follows such a backslash begins a
\* quoted pretoken.
BackslashIsOrdinary ==
    \A k \in 1..Len(toks) :
        toks[k].s[1] # QUOTE =>
            LET c == CpAt(toks[k].offset)
                d == CpAt(TokEnd(toks[k]))
            IN \A i \in (c + 1)..d :
                   (input[i] = BSLASH /\ cp_after(input, i) \in {QUOTE, SP, TAB, NL}) =>
                       /\ i = d
                       /\ (Completed /\ input[i + 1] = QUOTE) =>
                              \E q \in 1..Len(toks) :
                                  /\ toks[q].offset = byte_pos(input, i)
                                  /\ toks[q].s[1] = QUOTE

\* An unquoted pretoken that ends with a backslash, then the quoted
\* pretoken that the quote behind the backslash opens.
BackslashIsOrdinaryWitness ==
    /\ Len(toks) >= 2
    /\ toks[1].s = <<LETTER, BSLASH>>
    /\ toks[2].s[1] = QUOTE
    /\ toks[2].offset = TokEnd(toks[1])
====
